---- MODULE Spec2Model ----
(***************************************************************************)
(* A model of scroll's context-aware conversion layer (src/src/ctx.rs):    *)
(* the fallible and infallible reads and writes of the fixed-width         *)
(* numeric types, of raw byte ranges and of text, over a byte buffer.      *)
(*                                                                         *)
(* A numeric value is kept as its bit pattern: the sequence of its bytes   *)
(* by significance, least significant first (v[i+1] is the coefficient of  *)
(* 256^i).  Memory is a sequence of bytes by address.  How the two relate  *)
(* depends on the byte order of the target the crate is compiled for,      *)
(* which the model keeps as a variable; so does whether the build panics   *)
(* on integer overflow (debug) or wraps (release).                         *)
(***************************************************************************)
EXTENDS Integers, Sequences, FiniteSets, TLC

VARIABLES
    target_little,    \* cfg!(target_endian = "little") of the build
    overflow_checks,  \* the build panics on usize/isize overflow (debug profile)
    buf,              \* the byte slice the calls read from and write into
    call,             \* the last call made: its function and arguments
    ret               \* what that call returned, or that it panicked

vars == <<target_little, overflow_checks, buf, call, ret>>

----------------------------------------------------------------------------
(* Bounds of the model *)

\* longest buffer of the numeric specification
MaxLen == 9

\* size_of::<usize>() of the modelled target, in bytes: a 16-bit target, whose
\* usize and isize arithmetic fits 32-bit integers; the comparisons and the
\* wrap-around are the same at every pointer width
PtrBytes == 2

RECURSIVE Pow256(_)
Pow256(n) == IF n = 0 THEN 1 ELSE 256 * Pow256(n - 1)

UsizeMax == Pow256(PtrBytes) - 1
IsizeMax == (Pow256(PtrBytes) \div 2) - 1

Byte == 0..255

----------------------------------------------------------------------------
(* Sequences of bytes *)

Reverse(s) == [i \in 1..Len(s) |-> s[Len(s) + 1 - i]]

\* &s[from..to] for from <= to <= s.len(), offsets counted from zero
Slice(s, from, to) == SubSeq(s, from + 1, to)

Fill(seed, n) == [i \in 1..n |-> seed]

\* dst with src copied over dst[at..at+src.len()]
Overlay(dst, at, src) ==
    [i \in 1..Len(dst) |->
        IF i > at /\ i <= at + Len(src) THEN src[i - at] ELSE dst[i]]

----------------------------------------------------------------------------
(* Results *)

NoRet == [tag |-> "none", val |-> <<>>, lo |-> 0, hi |-> 0, size |-> 0]

\* the value an infallible routine returns
Value(v) == [tag |-> "Value", val |-> v, lo |-> 0, hi |-> 0, size |-> 0]

Ok(v) == [tag |-> "Ok", val |-> v, lo |-> 0, hi |-> 0, size |-> 0]

\* Err(Error::BadRange{range: lo..hi, size})
BadRange(lo, hi, size) ==
    [tag |-> "BadRange", val |-> <<>>, lo |-> lo, hi |-> hi, size |-> size]

\* Err(Error::BadOffset(offset))
BadOffset(offset) ==
    [tag |-> "BadOffset", val |-> <<>>, lo |-> offset, hi |-> 0, size |-> 0]

\* Err(Error::BadInput{range: lo..hi, size, msg: "invalid utf8"})
BadInput(lo, hi, size) ==
    [tag |-> "BadInput", val |-> <<>>, lo |-> lo, hi |-> hi, size |-> size]

\* the call did not return: an assertion, an overflow check or a slice index
\* panicked
Panic == [tag |-> "Panic", val |-> <<>>, lo |-> 0, hi |-> 0, size |-> 0]

----------------------------------------------------------------------------
(* usize arithmetic *)

\* a + b does not fit a usize
AddOverflows(a, b) == a + b > UsizeMax

\* a + b as the release build computes it
WrappingAdd(a, b) == (a + b) % (UsizeMax + 1)

----------------------------------------------------------------------------
(* Byte order *)

Endian == {"Little", "Big"}

\* endian::NATIVE, and ctx::CTX which is set to it
NATIVE == IF target_little THEN "Little" ELSE "Big"

CTX == NATIVE

is_little(le) == le = "Little"

\* u16/u32/u64/usize::swap_bytes on a bit pattern
swap_bytes(v) == Reverse(v)

to_le(v) == IF target_little THEN v ELSE swap_bytes(v)

\* a to_be that leaves the bytes as they are on every target
to_be_noswap(v) == v

to_be(v) == IF target_little THEN swap_bytes(v) ELSE v

\* the integer whose bytes in memory, by address, are mem
FromMemory(mem) == IF target_little THEN mem ELSE Reverse(mem)

\* the bytes in memory, by address, of the integer v (transmute to [u8; N])
ToMemory(v) == IF target_little THEN v ELSE Reverse(v)

----------------------------------------------------------------------------
(* The fixed-width numeric types *)

NumTypes ==
    {"u8", "i8", "u16", "i16", "u32", "i32", "u64", "i64", "f32", "f64", "usize"}

SizeOf(typ) ==
    CASE typ \in {"u8", "i8"} -> 1
      [] typ \in {"u16", "i16"} -> 2
      [] typ \in {"u32", "i32", "f32"} -> 4
      [] typ \in {"u64", "i64", "f64"} -> 8
      [] typ = "usize" -> PtrBytes

\* a signed_to_unsigned! that gives i32 the 16-bit carrier
signed_to_unsigned_i32_as_u16(typ) ==
    CASE typ \in {"i8", "u8"} -> "u8"
      [] typ \in {"i16", "u16"} -> "u16"
      [] typ = "u32" -> "u32"
      [] typ = "i32" -> "u16"
      [] typ \in {"i64", "u64"} -> "u64"
      [] typ = "f32" -> "u32"
      [] typ = "f64" -> "u64"
      [] typ = "usize" -> "usize"

\* signed_to_unsigned!: the unsigned type a value of typ is assembled in
\* (usize is its own carrier)
signed_to_unsigned(typ) ==
    CASE typ \in {"i8", "u8"} -> "u8"
      [] typ \in {"i16", "u16"} -> "u16"
      [] typ \in {"i32", "u32"} -> "u32"
      [] typ \in {"i64", "u64"} -> "u64"
      [] typ = "f32" -> "u32"
      [] typ = "f64" -> "u64"
      [] typ = "usize" -> "usize"

\* a from_ctx with the test of the byte order inverted
from_ctx_inverted(src, typ, le) ==
    IF ~(Len(src) >= SizeOf(typ))
    THEN Panic
    ELSE LET data == FromMemory(Slice(src, 0, SizeOf(typ)))
         IN  Value(IF is_little(le) THEN to_be(data) ELSE to_le(data))

\* a from_ctx without its assertion: on a short slice the copy reads on past
\* the end (shown here as zero bytes) and a value is returned
from_ctx_unchecked(src, typ, le) ==
    LET bytes == IF Len(src) >= SizeOf(typ)
                 THEN Slice(src, 0, SizeOf(typ))
                 ELSE src \o Fill(0, SizeOf(typ) - Len(src))
        data == FromMemory(bytes)
    IN  Value(IF is_little(le) THEN to_le(data) ELSE to_be(data))

\* from_ctx: the infallible read of a typ from the start of src
from_ctx(src, typ, le) ==
    IF ~(Len(src) >= SizeOf(typ))
    THEN Panic
    ELSE LET data == FromMemory(Slice(src, 0, SizeOf(typ)))
         IN  Value(IF is_little(le) THEN to_le(data) ELSE to_be(data))

\* a try_from_ctx that hands from_ctx the whole tail &src[offset..]
try_from_ctx_tail(src, typ, offset, le) ==
    LET size == SizeOf(typ)
        end == WrappingAdd(offset, size)
    IN  IF AddOverflows(offset, size) /\ overflow_checks
        THEN [ret |-> Panic, handed |-> <<>>]
        ELSE IF end > Len(src)
        THEN [ret |-> BadRange(offset, end, Len(src)), handed |-> <<>>]
        ELSE IF offset > end
        THEN [ret |-> Panic, handed |-> <<>>]
        ELSE LET sub == Slice(src, offset, Len(src))
                 r == from_ctx(sub, typ, le)
             IN  [ret |-> IF r.tag = "Value" THEN Ok(r.val) ELSE r,
                  handed |-> <<sub>>]

\* try_from_ctx: the fallible read of a typ at offset.  handed is the list of
\* the slices it passed to from_ctx
try_from_ctx(src, typ, offset, le) ==
    LET size == SizeOf(typ)
        end == WrappingAdd(offset, size)
    IN  IF AddOverflows(offset, size) /\ overflow_checks
        THEN [ret |-> Panic, handed |-> <<>>]
        ELSE IF end > Len(src)
        THEN [ret |-> BadRange(offset, end, Len(src)), handed |-> <<>>]
        ELSE IF offset > end
        THEN [ret |-> Panic, handed |-> <<>>]
        ELSE LET sub == Slice(src, offset, end)
                 r == from_ctx(sub, typ, le)
             IN  [ret |-> IF r.tag = "Value" THEN Ok(r.val) ELSE r,
                  handed |-> <<sub>>]

\* a write_into! that copies n in the target's own order whatever le is
write_into_native(n, size, dst, le) ==
    IF ~(Len(dst) >= size)
    THEN [ret |-> Panic, dst |-> dst]
    ELSE [ret |-> Value(<<>>), dst |-> Overlay(dst, 0, ToMemory(n))]

\* write_into!: the bytes of n, in the order le, copied to the start of dst
write_into(n, size, dst, le) ==
    IF ~(Len(dst) >= size)
    THEN [ret |-> Panic, dst |-> dst]
    ELSE LET bytes == ToMemory(IF is_little(le) THEN to_le(n) ELSE to_be(n))
         IN  [ret |-> Value(<<>>), dst |-> Overlay(dst, 0, bytes)]

\* into_ctx: the infallible write of the typ value n to the start of dst
into_ctx(n, typ, dst, le) ==
    IF ~(Len(dst) >= SizeOf(typ))
    THEN [ret |-> Panic, dst |-> dst]
    ELSE write_into(n, SizeOf(typ), dst, le)

\* try_into_ctx: the fallible write of the typ value n at offset
try_into_ctx(n, typ, dst, offset, le) ==
    LET size == SizeOf(typ)
        end == WrappingAdd(offset, size)
    IN  IF AddOverflows(offset, size) /\ overflow_checks
        THEN [ret |-> Panic, dst |-> dst, handed |-> <<>>]
        ELSE IF end > Len(dst)
        THEN [ret |-> BadRange(offset, end, Len(dst)), dst |-> dst,
              handed |-> <<>>]
        ELSE IF offset > end
        THEN [ret |-> Panic, dst |-> dst, handed |-> <<>>]
        ELSE LET sub == Slice(dst, offset, end)
                 w == into_ctx(n, typ, sub, le)
             IN  [ret |-> IF w.ret.tag = "Value" THEN Ok(<<>>) ELSE w.ret,
                  dst |-> Overlay(dst, offset, w.dst),
                  handed |-> <<sub>>]

----------------------------------------------------------------------------
(* The calls of the numeric specification *)

\* after: when the call reads back what the call before it wrote (the same
\* type at the same offset, written successfully), that write's value and order
NoCall ==
    [fn |-> "none", typ |-> "none", offset |-> 0, endian |-> "Little",
     val |-> <<>>, handed |-> <<>>, after |-> <<>>]

\* the offsets tried: every offset into and just past the longest buffer, and
\* the offsets at the top of the usize and isize ranges
Offsets(maxlen) == (0..(maxlen + 1)) \cup {IsizeMax, UsizeMax - 1, UsizeMax}

\* the values written: zero, the all-ones pattern, and a pattern whose bytes
\* all differ (01, 02 01, 04 03 02 01, ...)
ValuesOf(typ) ==
    {Fill(0, SizeOf(typ)), Fill(255, SizeOf(typ)),
     [i \in 1..SizeOf(typ) |-> i]}

\* the contents a buffer starts with
Ramp(n) == [i \in 1..n |-> i]

BeefCycle == <<239, 190, 0, 0, 239, 190, 173, 222>>

Beef(n) == [i \in 1..n |-> BeefCycle[((i - 1) % 8) + 1]]

NumBuffers ==
    UNION {{Fill(0, n), Fill(255, n), Ramp(n), Beef(n)} : n \in 0..MaxLen}

NumInit ==
    /\ target_little \in BOOLEAN
    /\ overflow_checks \in BOOLEAN
    /\ buf \in NumBuffers
    /\ call = NoCall
    /\ ret = NoRet

TryFromCtx(typ, offset, le) ==
    /\ LET r == try_from_ctx(buf, typ, offset, le)
       IN  /\ ret' = r.ret
           /\ call' = [fn |-> "try_from_ctx", typ |-> typ, offset |-> offset,
                       endian |-> le, val |-> <<>>, handed |-> r.handed,
                       after |-> IF /\ call.fn = "try_into_ctx"
                                    /\ ret.tag = "Ok"
                                    /\ call.typ = typ
                                    /\ call.offset = offset
                                 THEN <<[val |-> call.val,
                                         endian |-> call.endian]>>
                                 ELSE <<>>]
    /\ UNCHANGED <<target_little, overflow_checks, buf>>

TryIntoCtx(n, typ, offset, le) ==
    /\ LET r == try_into_ctx(n, typ, buf, offset, le)
       IN  /\ ret' = r.ret
           /\ buf' = r.dst
           /\ call' = [fn |-> "try_into_ctx", typ |-> typ, offset |-> offset,
                       endian |-> le, val |-> n, handed |-> r.handed,
                       after |-> <<>>]
    /\ UNCHANGED <<target_little, overflow_checks>>

\* a run makes one call on the buffer it starts with
Idle == call.fn = "none"

NumRead ==
    /\ Idle
    /\ \E typ \in NumTypes, offset \in Offsets(MaxLen), le \in Endian :
            TryFromCtx(typ, offset, le)

NumWrite ==
    /\ Idle
    /\ \E typ \in NumTypes, offset \in Offsets(MaxLen), le \in Endian :
            \E n \in ValuesOf(typ) : TryIntoCtx(n, typ, offset, le)

\* the value just written is read back from where it was written, in either
\* byte order
NumReadBack ==
    /\ call.fn = "try_into_ctx"
    /\ ret.tag = "Ok"
    /\ \E le \in Endian : TryFromCtx(call.typ, call.offset, le)

NumNext == NumRead \/ NumWrite \/ NumReadBack

NumSpec == NumInit /\ [][NumNext]_vars

\* ---------------------------------------------------------------------------
\* the infallible tier called directly, on the whole buffer as the slice

FromCtx(typ, le) ==
    /\ ret' = from_ctx(buf, typ, le)
    /\ call' = [NoCall EXCEPT !.fn = "from_ctx", !.typ = typ, !.endian = le]
    /\ UNCHANGED <<target_little, overflow_checks, buf>>

IntoCtx(n, typ, le) ==
    /\ LET r == into_ctx(n, typ, buf, le)
       IN  /\ ret' = r.ret
           /\ buf' = r.dst
    /\ call' = [NoCall EXCEPT !.fn = "into_ctx", !.typ = typ, !.endian = le,
                              !.val = n]
    /\ UNCHANGED <<target_little, overflow_checks>>

InfallibleRead ==
    /\ Idle
    /\ \E typ \in NumTypes, le \in Endian : FromCtx(typ, le)

InfallibleWrite ==
    /\ Idle
    /\ \E typ \in NumTypes, le \in Endian :
            \E n \in ValuesOf(typ) : IntoCtx(n, typ, le)

InfallibleNext == InfallibleRead \/ InfallibleWrite

InfallibleSpec == NumInit /\ [][InfallibleNext]_vars

----------------------------------------------------------------------------
(* Raw byte ranges and text *)

\* longest buffer of the text specification
MaxTextLen == 3

\* u as isize
AsIsize(u) == IF u > IsizeMax THEN u - (UsizeMax + 1) ELSE u

\* a + b does not fit an isize
IsizeAddOverflows(a, b) == a + b > IsizeMax

\* a + b on isize as the release build computes it
IsizeWrappingAdd(a, b) ==
    IF a + b > IsizeMax THEN a + b - (UsizeMax + 1) ELSE a + b

Continuation(b) == b >= 128 /\ b <= 191

\* the length of the UTF-8 sequence that starts at s[i], or 0 when there is
\* none (core::str::from_utf8's validation)
Utf8SeqLen(s, i) ==
    LET b == s[i]
        n == Len(s)
        c(k) == i + k <= n /\ Continuation(s[i + k])
        in(k, lo, hi) == i + k <= n /\ s[i + k] >= lo /\ s[i + k] <= hi
    IN  IF b < 128 THEN 1
        ELSE IF b >= 194 /\ b <= 223 THEN (IF c(1) THEN 2 ELSE 0)
        ELSE IF b = 224 THEN (IF in(1, 160, 191) /\ c(2) THEN 3 ELSE 0)
        ELSE IF (b >= 225 /\ b <= 236) \/ b = 238 \/ b = 239
             THEN (IF c(1) /\ c(2) THEN 3 ELSE 0)
        ELSE IF b = 237 THEN (IF in(1, 128, 159) /\ c(2) THEN 3 ELSE 0)
        ELSE IF b = 240
             THEN (IF in(1, 144, 191) /\ c(2) /\ c(3) THEN 4 ELSE 0)
        ELSE IF b >= 241 /\ b <= 243
             THEN (IF c(1) /\ c(2) /\ c(3) THEN 4 ELSE 0)
        ELSE IF b = 244
             THEN (IF in(1, 128, 143) /\ c(2) /\ c(3) THEN 4 ELSE 0)
        ELSE 0

RECURSIVE Utf8From(_, _)
Utf8From(s, i) ==
    IF i > Len(s)
    THEN TRUE
    ELSE LET k == Utf8SeqLen(s, i)
         IN  k > 0 /\ Utf8From(s, i + k)

\* str::from_utf8(bytes).is_ok()
from_utf8_ok(bytes) == Utf8From(bytes, 1)

\* TryRefFromCtx for [u8]: the byte range offset..offset+count of b
try_ref_from_ctx_bytes(b, offset, count) ==
    LET end == WrappingAdd(offset, count)
    IN  IF AddOverflows(offset, count) /\ overflow_checks
        THEN Panic
        ELSE IF end > Len(b)
        THEN BadRange(offset, end, Len(b))
        ELSE IF offset > end
        THEN Panic
        ELSE Ok(Slice(b, offset, end))

\* TryRefFromCtx for str: the byte range offset..offset+count of b as text
try_ref_from_ctx_str(b, offset, count) ==
    LET end == WrappingAdd(offset, count)
    IN  IF AddOverflows(offset, count) /\ overflow_checks
        THEN Panic
        ELSE IF end > Len(b)
        THEN BadRange(offset, end, Len(b))
        ELSE IF offset > end
        THEN Panic
        ELSE LET bytes == Slice(b, offset, end)
             IN  IF from_utf8_ok(bytes)
                 THEN Ok(bytes)
                 ELSE BadInput(offset, end, Len(bytes))

\* the while loop of get_str_delimiter_offset, from the state (i, byte) after
\* iters iterations, having indexed bytes at idxs
RECURSIVE ScanLoop(_, _, _, _, _, _)
ScanLoop(bytes, delimiter, i, byte, iters, idxs) ==
    IF byte # delimiter /\ i < Len(bytes)
    THEN ScanLoop(bytes, delimiter, i + 1, bytes[i + 1], iters + 1,
                  idxs \cup {i})
    ELSE [i |-> i, iters |-> iters, idxs |-> idxs]

\* a get_str_delimiter_offset that keeps the delimiter when it is the last
\* byte of the source
get_str_delimiter_offset_keeps_last(bytes, idx, delimiter) ==
    IF ~(idx < Len(bytes))
    THEN [tag |-> "Panic", off |-> 0, iters |-> 0, idxs |-> {idx}]
    ELSE IF bytes[idx + 1] = delimiter
    THEN [tag |-> "Value", off |-> idx, iters |-> 0, idxs |-> {idx}]
    ELSE LET l == ScanLoop(bytes, delimiter, idx, bytes[idx + 1], 0, {idx})
         IN  [tag |-> "Value",
              off |-> IF l.i < Len(bytes) THEN l.i - 1 ELSE l.i,
              iters |-> l.iters, idxs |-> l.idxs]

\* get_str_delimiter_offset: where the text that starts at idx ends.  iters
\* counts the iterations of its loop, idxs are the indices it read bytes at
get_str_delimiter_offset(bytes, idx, delimiter) ==
    IF ~(idx < Len(bytes))
    THEN [tag |-> "Panic", off |-> 0, iters |-> 0, idxs |-> {idx}]
    ELSE IF bytes[idx + 1] = delimiter
    THEN [tag |-> "Value", off |-> idx, iters |-> 0, idxs |-> {idx}]
    ELSE LET l == ScanLoop(bytes, delimiter, idx, bytes[idx + 1], 0, {idx})
         IN  IF l.i < Len(bytes)
             THEN [tag |-> "Value", off |-> l.i - 1, iters |-> l.iters,
                   idxs |-> l.idxs]
             ELSE IF l.i = 0
             THEN [tag |-> "Panic", off |-> 0, iters |-> l.iters,
                   idxs |-> l.idxs \cup {-1}]
             ELSE IF bytes[l.i] = delimiter
             THEN [tag |-> "Value", off |-> l.i - 1, iters |-> l.iters,
                   idxs |-> l.idxs \cup {l.i - 1}]
             ELSE [tag |-> "Value", off |-> l.i, iters |-> l.iters,
                   idxs |-> l.idxs \cup {l.i - 1}]

NoScan == [tag |-> "none", off |-> 0, iters |-> 0, idxs |-> {}]

\* a try_from_ctx_str that lets the offset len(src) through to the scan
try_from_ctx_str_off_by_one(src, offset, delimiter) ==
    IF offset > Len(src)
    THEN [ret |-> BadOffset(offset), scan |-> NoScan]
    ELSE LET scan == get_str_delimiter_offset(src, offset, delimiter)
         IN  IF scan.tag = "Panic"
             THEN [ret |-> Panic, scan |-> scan]
             ELSE IF scan.off < offset  \* the subtraction or the slice panics
             THEN [ret |-> Panic, scan |-> scan]
             ELSE LET count == scan.off - offset
                      bytes == Slice(src, offset, offset + count)
                  IN  IF count = 0
                      THEN [ret |-> Ok(<<>>), scan |-> scan]
                      ELSE IF from_utf8_ok(bytes)
                      THEN [ret |-> Ok(bytes), scan |-> scan]
                      ELSE [ret |-> BadInput(offset, offset + count,
                                             Len(bytes)),
                            scan |-> scan]

\* a try_from_ctx_str that returns the empty text for an offset at or past
\* the end
try_from_ctx_str_empty_past_end(src, offset, delimiter) ==
    IF offset >= Len(src)
    THEN [ret |-> Ok(<<>>), scan |-> NoScan]
    ELSE LET scan == get_str_delimiter_offset(src, offset, delimiter)
         IN  IF scan.tag = "Panic"
             THEN [ret |-> Panic, scan |-> scan]
             ELSE IF scan.off < offset  \* the subtraction or the slice panics
             THEN [ret |-> Panic, scan |-> scan]
             ELSE LET count == scan.off - offset
                      bytes == Slice(src, offset, offset + count)
                  IN  IF count = 0
                      THEN [ret |-> Ok(<<>>), scan |-> scan]
                      ELSE IF from_utf8_ok(bytes)
                      THEN [ret |-> Ok(bytes), scan |-> scan]
                      ELSE [ret |-> BadInput(offset, offset + count,
                                             Len(bytes)),
                            scan |-> scan]

\* TryFromCtx<(usize, StrCtx)> for &str: the text from offset up to the
\* delimiter.  scan is what its call of get_str_delimiter_offset did
try_from_ctx_str(src, offset, delimiter) ==
    IF offset >= Len(src)
    THEN [ret |-> BadOffset(offset), scan |-> NoScan]
    ELSE LET scan == get_str_delimiter_offset(src, offset, delimiter)
         IN  IF scan.tag = "Panic"
             THEN [ret |-> Panic, scan |-> scan]
             ELSE IF scan.off < offset  \* the subtraction or the slice panics
             THEN [ret |-> Panic, scan |-> scan]
             ELSE LET count == scan.off - offset
                      bytes == Slice(src, offset, offset + count)
                  IN  IF count = 0
                      THEN [ret |-> Ok(<<>>), scan |-> scan]
                      ELSE IF from_utf8_ok(bytes)
                      THEN [ret |-> Ok(bytes), scan |-> scan]
                      ELSE [ret |-> BadInput(offset, offset + count,
                                             Len(bytes)),
                            scan |-> scan]

\* the process was killed by a memory fault
Fault == [tag |-> "Fault", val |-> <<>>, lo |-> 0, hi |-> 0, size |-> 0]

\* what copy_nonoverlapping(src, dst.as_mut_ptr().offset(at), src.len())
\* leaves of dst when the bytes land where the address arithmetic points:
\* the part of at..at+src.len() inside the slice is overwritten, the rest of
\* it is memory that is not the slice's
CopyAt(dst, at, src) ==
    [i \in 1..Len(dst) |->
        IF i > at /\ i <= at + Len(src) THEN src[i - at] ELSE dst[i]]

\* TryIntoCtx for &[u8]: the outcomes of copying src to dst at uoffset.  oob
\* tells that the copy was given an address range not inside dst, which is
\* undefined behaviour: the bytes land where the arithmetic points, or the
\* process is killed
try_into_ctx_bytes(src, dst, uoffset) ==
    LET src_len == AsIsize(Len(src))
        dst_len == AsIsize(Len(dst))
        offset == AsIsize(uoffset)
        sum == IsizeWrappingAdd(offset, src_len)
    IN  IF IsizeAddOverflows(offset, src_len) /\ overflow_checks
        THEN {[ret |-> Panic, dst |-> dst, oob |-> FALSE]}
        ELSE IF sum > dst_len
        THEN IF AddOverflows(uoffset, Len(src)) /\ overflow_checks
             THEN {[ret |-> Panic, dst |-> dst, oob |-> FALSE]}
             ELSE {[ret |-> BadRange(uoffset, WrappingAdd(uoffset, Len(src)),
                                     Len(dst)),
                    dst |-> dst, oob |-> FALSE]}
        ELSE IF offset >= 0 /\ offset + src_len <= dst_len
        THEN {[ret |-> Ok(<<>>), dst |-> CopyAt(dst, offset, src),
               oob |-> FALSE]}
        ELSE {[ret |-> Ok(<<>>), dst |-> CopyAt(dst, offset, src),
               oob |-> TRUE],
              [ret |-> Fault, dst |-> dst, oob |-> TRUE]}

\* str::as_bytes
as_bytes(text) == text

\* TryIntoCtx<(usize, StrCtx)> for &str: the outcomes of writing text at offset
try_into_ctx_str(text, dst, offset, delimiter) ==
    try_into_ctx_bytes(as_bytes(text), dst, offset)

----------------------------------------------------------------------------
(* The calls of the text specification *)

\* NULL and SPACE of StrCtx
NULL == 0
SPACE == 32

Delimiters == {NULL, SPACE}

\* the bytes of the buffers: the two delimiters (each a plain character when
\* the other delimits), the two bytes of U+00E9 and a byte no UTF-8 text holds
TextBytes == {0, 32, 195, 169, 255}

RECURSIVE SeqsUpTo(_, _)
SeqsUpTo(S, n) ==
    IF n = 0
    THEN {<<>>}
    ELSE LET shorter == SeqsUpTo(S, n - 1)
         IN  shorter \cup {Append(s, b) : s \in shorter, b \in S}

TextBuffers == SeqsUpTo(TextBytes, MaxTextLen)

\* the texts written: each is valid UTF-8
Texts == {<<>>, <<32>>, <<195, 169>>, <<32, 0, 32>>}

\* the byte slices written
Blobs == Texts \cup {<<255>>, <<255, 0>>}

Counts == (0..(MaxTextLen + 1)) \cup {UsizeMax}

TextNoCall ==
    [fn |-> "none", offset |-> 0, count |-> 0, delimiter |-> 0, val |-> <<>>,
     oob |-> FALSE, scan |-> NoScan]

TextInit ==
    /\ target_little \in BOOLEAN
    /\ overflow_checks \in BOOLEAN
    /\ buf \in TextBuffers
    /\ call = TextNoCall
    /\ ret = NoRet

TryRefFromCtxBytes(offset, count) ==
    /\ ret' = try_ref_from_ctx_bytes(buf, offset, count)
    /\ call' = [TextNoCall EXCEPT !.fn = "try_ref_from_ctx_bytes",
                                  !.offset = offset, !.count = count]
    /\ UNCHANGED <<target_little, overflow_checks, buf>>

TryRefFromCtxStr(offset, count) ==
    /\ ret' = try_ref_from_ctx_str(buf, offset, count)
    /\ call' = [TextNoCall EXCEPT !.fn = "try_ref_from_ctx_str",
                                  !.offset = offset, !.count = count]
    /\ UNCHANGED <<target_little, overflow_checks, buf>>

TryFromCtxStr(offset, delimiter) ==
    /\ LET r == try_from_ctx_str(buf, offset, delimiter)
       IN  /\ ret' = r.ret
           /\ call' = [TextNoCall EXCEPT !.fn = "try_from_ctx_str",
                                         !.offset = offset,
                                         !.delimiter = delimiter,
                                         !.scan = r.scan]
    /\ UNCHANGED <<target_little, overflow_checks, buf>>

TryIntoCtxBytes(src, offset) ==
    /\ \E r \in try_into_ctx_bytes(src, buf, offset) :
           /\ ret' = r.ret
           /\ buf' = r.dst
           /\ call' = [TextNoCall EXCEPT !.fn = "try_into_ctx_bytes",
                                         !.offset = offset, !.val = src,
                                         !.oob = r.oob]
    /\ UNCHANGED <<target_little, overflow_checks>>

TryIntoCtxStr(text, offset, delimiter) ==
    /\ \E r \in try_into_ctx_str(text, buf, offset, delimiter) :
           /\ ret' = r.ret
           /\ buf' = r.dst
           /\ call' = [TextNoCall EXCEPT !.fn = "try_into_ctx_str",
                                         !.offset = offset, !.val = text,
                                         !.delimiter = delimiter,
                                         !.oob = r.oob]
    /\ UNCHANGED <<target_little, overflow_checks>>

BytesRead ==
    /\ Idle
    /\ \E offset \in Offsets(MaxTextLen), count \in Counts :
           TryRefFromCtxBytes(offset, count)

FixedTextRead ==
    /\ Idle
    /\ \E offset \in Offsets(MaxTextLen), count \in Counts :
           TryRefFromCtxStr(offset, count)

DelimitedTextRead ==
    /\ Idle
    /\ \E offset \in Offsets(MaxTextLen), delimiter \in Delimiters :
           TryFromCtxStr(offset, delimiter)

BytesWrite ==
    /\ Idle
    /\ \E src \in Blobs, offset \in Offsets(MaxTextLen) :
           TryIntoCtxBytes(src, offset)

TextWrite ==
    /\ Idle
    /\ \E text \in Texts, offset \in Offsets(MaxTextLen),
          delimiter \in Delimiters :
           TryIntoCtxStr(text, offset, delimiter)

TextNext ==
    \/ BytesRead
    \/ FixedTextRead
    \/ DelimitedTextRead
    \/ BytesWrite
    \/ TextWrite

TextSpec == TextInit /\ [][TextNext]_vars

\* ---------------------------------------------------------------------------
\* get_str_delimiter_offset, one statement at a time: call holds its locals
\* (i, byte), the number of loop iterations done and the place it is at

ScanNoCall ==
    [fn |-> "none", pc |-> "idle", idx |-> 0, delimiter |-> 0, i |-> 0,
     byte |-> 0, iters |-> 0]

ScanInit ==
    /\ target_little \in BOOLEAN
    /\ overflow_checks \in BOOLEAN
    /\ buf \in TextBuffers
    /\ call = ScanNoCall
    /\ ret = NoRet

\* let mut i = idx; let mut byte = bytes[i]; if byte == delimiter { return i }
\* its only caller passes idx < bytes.len()
ScanEnter(idx, delimiter) ==
    /\ call.pc = "idle"
    /\ idx < Len(buf)
    /\ LET byte == buf[idx + 1]
       IN  /\ call' = [fn |-> "get_str_delimiter_offset",
                       pc |-> IF byte = delimiter THEN "done" ELSE "loop",
                       idx |-> idx, delimiter |-> delimiter, i |-> idx,
                       byte |-> byte, iters |-> 0]
           /\ ret' = IF byte = delimiter THEN Value(idx) ELSE NoRet
    /\ UNCHANGED <<target_little, overflow_checks, buf>>

\* a loop body that reads the byte and leaves i where it is
ScanIterate_no_advance ==
    /\ call.pc = "loop"
    /\ call.byte # call.delimiter /\ call.i < Len(buf)
    /\ call' = [call EXCEPT !.byte = buf[call.i + 1],
                            !.iters = call.iters + 1]
    /\ UNCHANGED <<target_little, overflow_checks, buf, ret>>

\* while byte != delimiter && i < len { byte = bytes[i]; i += 1; }
ScanIterate ==
    /\ call.pc = "loop"
    /\ call.byte # call.delimiter /\ call.i < Len(buf)
    /\ call' = [call EXCEPT !.byte = buf[call.i + 1],
                            !.i = call.i + 1,
                            !.iters = call.iters + 1]
    /\ UNCHANGED <<target_little, overflow_checks, buf, ret>>

\* if i < len || bytes[i - 1] == delimiter { i -= 1; } i
ScanExit ==
    /\ call.pc = "loop"
    /\ ~(call.byte # call.delimiter /\ call.i < Len(buf))
    /\ ret' = IF call.i < Len(buf) THEN Value(call.i - 1)
              ELSE IF call.i = 0 THEN Panic
              ELSE IF buf[call.i] = call.delimiter THEN Value(call.i - 1)
              ELSE Value(call.i)
    /\ call' = [call EXCEPT !.pc = "done"]
    /\ UNCHANGED <<target_little, overflow_checks, buf>>

ScanCall ==
    /\ call.pc = "idle"
    /\ \E idx \in 0..MaxTextLen, delimiter \in Delimiters :
          ScanEnter(idx, delimiter)

ScanNext == ScanCall \/ ScanIterate \/ ScanExit

\* the function's statements run one after the other without being suspended
ScanSpec == ScanInit /\ [][ScanNext]_vars /\ WF_vars(ScanNext)

----------------------------------------------------------------------------
(* Properties of the numeric reads and writes *)

NumericCall == call.fn \in {"try_from_ctx", "try_into_ctx"}

\* the integer a bit pattern stands for
RECURSIVE ToNat(_)
ToNat(v) == IF v = <<>> THEN 0 ELSE Head(v) + 256 * ToNat(Tail(v))

\* the bit pattern stands for an integer below 2^31
Representable(v) ==
    /\ \A i \in 1..Len(v) : i > 4 => v[i] = 0
    /\ Len(v) >= 4 => v[4] < 128

\* the sum over i in 0..w-1 of src[o+i] * 256^e(i), with e(i) = i when le and
\* e(i) = w-1-i otherwise (a zero byte adds nothing, whatever its weight)
RECURSIVE WeightedSum(_, _, _, _, _)
WeightedSum(src, o, w, le, i) ==
    IF i = w
    THEN 0
    ELSE (IF src[o + i + 1] = 0
          THEN 0
          ELSE src[o + i + 1] * Pow256(IF le THEN i ELSE w - 1 - i))
         + WeightedSum(src, o, w, le, i + 1)

Palindrome(v) == v = Reverse(v)

\* C1: a fallible numeric read or write at offset o of a width-w type on a
\* buffer of length n returns Ok iff o + w <= n, and otherwise returns
\* BadRange{range: o..o+w, size: n}; it returns nothing else.
C1_BoundsContract ==
    NumericCall =>
        LET w == SizeOf(call.typ)
            o == call.offset
            n == Len(buf)
        IN  IF o + w <= n
            THEN ret.tag = "Ok"
            ELSE ret = BadRange(o, o + w, n)

\* C3: a value written successfully and read back at the same offset with
\* the same byte order is returned unchanged.
C3_ReadBackState ==
    (call.fn = "try_from_ctx" /\ call.after # <<>>
        /\ call.after[1].endian = call.endian)
    => ret = Ok(call.after[1].val)

\* C3: a successful write leaves the result of every read of a range
\* disjoint from the written one as it was.
C3_DisjointStep ==
    (call'.fn = "try_into_ctx" /\ ret'.tag = "Ok") =>
        \A typ \in NumTypes, le \in Endian, o \in 0..Len(buf) :
            (\/ o + SizeOf(typ) <= call'.offset
             \/ call'.offset + SizeOf(call'.typ) <= o)
            => try_from_ctx(buf', typ, o, le).ret
               = try_from_ctx(buf, typ, o, le).ret

\* C3: round trip of every numeric type in every byte order, and writes to
\* disjoint ranges do not disturb each other's read-back value.
C3_RoundTrip == []C3_ReadBackState /\ [][C3_DisjointStep]_vars

C3_Witness ==
    /\ call.fn = "try_from_ctx"
    /\ call.after # <<>>
    /\ call.after[1].endian = call.endian
    /\ call.typ = "usize"
    /\ call.endian = "Big"
    /\ call.offset > 0
    /\ ~Palindrome(call.after[1].val)
    /\ ret = Ok(call.after[1].val)

Unsigned == {"u8", "u16", "u32", "u64", "usize"}

\* C4: a successful read of an unsigned integer of width w at offset o gives,
\* with Little order, the integer whose byte of weight 256^i is src[o+i], and
\* with Big order the one whose byte of weight 256^(w-1-i) is src[o+i], on
\* either target; where the integer is below 2^31 it is that weighted sum.
C4_BitExactRead ==
    (call.fn = "try_from_ctx" /\ call.typ \in Unsigned /\ ret.tag = "Ok") =>
        LET w == SizeOf(call.typ)
            o == call.offset
            le == call.endian = "Little"
        IN  /\ Len(ret.val) = w
            /\ \A i \in 0..(w - 1) :
                   ret.val[(IF le THEN i ELSE w - 1 - i) + 1] = buf[o + i + 1]
            /\ Representable(ret.val)
               => ToNat(ret.val) = WeightedSum(buf, o, w, le, 0)

\* bytes 01 02 03 04 read as a u32 with Big order on a little-endian target
\* give 0x01020304
C4_Witness ==
    /\ call.fn = "try_from_ctx"
    /\ call.typ = "u32"
    /\ call.endian = "Big"
    /\ call.offset = 0
    /\ target_little
    /\ ret.tag = "Ok"
    /\ SubSeq(buf, 1, 4) = <<1, 2, 3, 4>>
    /\ ToNat(ret.val) = 16909060

\* C5: a multi-byte value written with Little order reads back unchanged
\* with Little order, and with Big order reads back as its byte reversal,
\* which is the value itself only when its bytes form a palindrome.
C5_OrderBijection ==
    (call.fn = "try_from_ctx" /\ call.after # <<>>
        /\ call.after[1].endian = "Little" /\ SizeOf(call.typ) > 1) =>
        LET v == call.after[1].val
        IN  /\ call.endian = "Little" => ret = Ok(v)
            /\ call.endian = "Big" =>
                   /\ ret = Ok(swap_bytes(v))
                   /\ (ret.val = v) <=> Palindrome(v)

C5_Witness ==
    /\ call.fn = "try_from_ctx"
    /\ call.after # <<>>
    /\ call.after[1].endian = "Little"
    /\ call.endian = "Big"
    /\ call.typ = "f64"
    /\ ~Palindrome(call.after[1].val)
    /\ ret.tag = "Ok"
    /\ ret.val # call.after[1].val
    /\ ret.val = Reverse(call.after[1].val)

\* C8: a fallible read that succeeds returns what the infallible read
\* returns on src[o..o+w] with the same order, and the only slice the
\* fallible read ever hands the infallible one is that slice, of length w.
C8_FallibleDelegates ==
    call.fn = "try_from_ctx" =>
        LET w == SizeOf(call.typ)
            o == call.offset
        IN  /\ ret.tag = "Ok" =>
                /\ o + w <= Len(buf)
                /\ call.handed = <<Slice(buf, o, o + w)>>
                /\ ret.val = from_ctx(Slice(buf, o, o + w), call.typ,
                                      call.endian).val
            /\ \A k \in 1..Len(call.handed) : Len(call.handed[k]) = w
            /\ call.handed # <<>> => ret.tag = "Ok"

C8_Witness ==
    /\ call.fn = "try_from_ctx"
    /\ call.typ = "i32"
    /\ call.offset = 3
    /\ Len(buf) > 7
    /\ ret.tag = "Ok"
    /\ Len(call.handed) = 1
    /\ Len(call.handed[1]) = 4

----------------------------------------------------------------------------
(* Properties of the raw byte ranges and of text *)

FallibleWrite ==
    {"try_into_ctx", "try_into_ctx_bytes", "try_into_ctx_str"}

IsErr(r) == r.tag \in {"BadRange", "BadOffset", "BadInput"}

\* C2: a fallible write at offset o of w bytes changes no byte of the
\* destination outside o..o+w and not its length, and changes nothing when
\* it returns an error.
C2_FrameStep ==
    call'.fn \in FallibleWrite =>
        LET o == call'.offset
            w == IF call'.fn = "try_into_ctx"
                 THEN SizeOf(call'.typ)
                 ELSE Len(call'.val)
        IN  /\ Len(buf') = Len(buf)
            /\ \A i \in 0..(Len(buf) - 1) :
                   (i < o \/ i >= o + w) => buf'[i + 1] = buf[i + 1]
            /\ IsErr(ret') => buf' = buf

C2_WriteFrame == [][C2_FrameStep]_vars

\* the smallest index j >= o with src[j] = d, or len(src) when there is none
FirstDelimiter(src, o, d) ==
    LET hits == {k \in o..(Len(src) - 1) : src[k + 1] = d}
    IN  IF hits = {}
        THEN Len(src)
        ELSE CHOOSE k \in hits : \A m \in hits : k <= m

DelimitedCall == call.fn = "try_from_ctx_str" /\ call.offset < Len(buf)

\* C6 as stated: a delimited text read at o < len(src) returns exactly the
\* bytes src[o..j], j the first delimiter at or after o or len(src).
C6_AlwaysTheBytes ==
    DelimitedCall =>
        ret = Ok(Slice(buf, call.offset,
                       FirstDelimiter(buf, call.offset, call.delimiter)))

\* C6 amended: a delimited text read at o < len(src) returns exactly the
\* bytes src[o..j] when they are valid UTF-8, and BadInput{range: o..j,
\* size: j-o} when they are not; so it returns the empty text when src[o] is
\* the delimiter, never returns the delimiter, and returns everything up to
\* the end of the source when no delimiter follows.
C6_DelimitedText ==
    DelimitedCall =>
        LET o == call.offset
            d == call.delimiter
            j == FirstDelimiter(buf, o, d)
            bytes == Slice(buf, o, j)
        IN  /\ IF from_utf8_ok(bytes)
               THEN ret = Ok(bytes)
               ELSE ret = BadInput(o, j, j - o)
            /\ buf[o + 1] = d => ret = Ok(<<>>)
            /\ ret.tag = "Ok" => \A k \in 1..Len(ret.val) : ret.val[k] # d
            /\ (ret.tag = "Ok" /\ \A k \in (o + 1)..Len(buf) : buf[k] # d)
               => ret.val = Slice(buf, o, Len(buf))

\* the delimiter is the very last byte of the source and the text before it
\* is returned without it
C6_Witness ==
    /\ DelimitedCall
    /\ Len(buf) = 3
    /\ call.offset = 0
    /\ buf[3] = call.delimiter
    /\ FirstDelimiter(buf, 0, call.delimiter) = 2
    /\ ret = Ok(<<195, 169>>)

\* C7: a fixed-length text read of count c at offset o on a source of length
\* n returns BadRange{range: o..o+c, size: n} if o + c > n, else
\* BadInput{range: o..o+c, size: c} if src[o..o+c] is not valid UTF-8, else
\* exactly the bytes src[o..o+c].
C7_FixedText ==
    call.fn = "try_ref_from_ctx_str" =>
        LET o == call.offset
            c == call.count
            n == Len(buf)
        IN  IF o + c > n
            THEN ret = BadRange(o, o + c, n)
            ELSE IF ~from_utf8_ok(Slice(buf, o, o + c))
            THEN ret = BadInput(o, o + c, c)
            ELSE ret = Ok(Slice(buf, o, o + c))

\* C9: a raw read of count c at offset o on a buffer of length n returns
\* src[o..o+c] when o + c <= n and BadRange{range: o..o+c, size: n}
\* otherwise; a raw write of c bytes makes dst[o..o+c] the given bytes when
\* o + c <= n and returns that BadRange otherwise.
C9_RawRange ==
    /\ call.fn = "try_ref_from_ctx_bytes" =>
           LET o == call.offset
               c == call.count
               n == Len(buf)
           IN  IF o + c <= n
               THEN ret = Ok(Slice(buf, o, o + c))
               ELSE ret = BadRange(o, o + c, n)
    /\ call.fn = "try_into_ctx_bytes" =>
           LET o == call.offset
               c == Len(call.val)
               n == Len(buf)
           IN  IF o + c <= n
               THEN ret.tag = "Ok" /\ Slice(buf, o, o + c) = call.val
               ELSE ret = BadRange(o, o + c, n)

\* C10: writing text at offset o does to the destination, and returns, what
\* the raw write of the text's bytes at o does: on success dst[o..o+len] is
\* the text's bytes and the byte after them, if any, is unchanged; the
\* delimiter of the context makes no difference.
C10_TextWriteStep ==
    call'.fn = "try_into_ctx_str" =>
        LET o == call'.offset
            text == call'.val
            n == Len(buf)
        IN  /\ [ret |-> ret', dst |-> buf', oob |-> call'.oob]
                   \in try_into_ctx_bytes(text, buf, o)
            /\ ret'.tag = "Ok" =>
                   /\ o + Len(text) <= n
                   /\ Slice(buf', o, o + Len(text)) = text
                   /\ o + Len(text) < n
                      => buf'[o + Len(text) + 1] = buf[o + Len(text) + 1]
            /\ \A d \in Delimiters :
                   try_into_ctx_str(text, buf, o, d)
                   = try_into_ctx_str(text, buf, o, call'.delimiter)

C10_TextWriteIsRawWrite == [][C10_TextWriteStep]_vars

\* C11: a delimited text read returns a value or an error for every source,
\* offset and delimiter, and every index its delimiter scan reads bytes at
\* lies within 0..len(src).
C11_ScanInBounds ==
    call.fn = "try_from_ctx_str" =>
        /\ ret.tag \in {"Ok", "BadOffset", "BadInput"}
        /\ call.scan.tag # "Panic"
        /\ \A k \in call.scan.idxs : 0 <= k /\ k < Len(buf)

\* the scan ran from offset 1 to the end of the source without meeting the
\* delimiter, and read bytes[i - 1] there
C11_Witness ==
    /\ call.fn = "try_from_ctx_str"
    /\ Len(buf) = 3
    /\ call.offset = 1
    /\ call.scan.tag = "Value"
    /\ call.scan.off = 3
    /\ call.scan.idxs = {1, 2}
    /\ call.scan.iters = 2
    /\ ret.tag \in {"Ok", "BadInput"}

\* C12: a delimited text read at an offset o >= len(src) returns
\* BadOffset(o); at an offset o < len(src) it never returns BadOffset.
C12_BadOffset ==
    call.fn = "try_from_ctx_str" =>
        IF call.offset >= Len(buf)
        THEN ret = BadOffset(call.offset)
        ELSE ret.tag # "BadOffset"

\* offset 0 on the empty source
C12_Witness ==
    /\ call.fn = "try_from_ctx_str"
    /\ buf = <<>>
    /\ call.offset = 0
    /\ ret = BadOffset(0)

\* where the scan is, against its start and the source
C17_LoopBound ==
    call.pc # "idle" =>
        /\ call.i = call.idx + call.iters
        /\ call.iters <= Len(buf) - call.idx
        /\ call.idx < Len(buf)

\* what the scan returns, and that the recursive rendering of the loop agrees
C17_Result ==
    call.pc = "done" =>
        /\ ret.tag = "Value"
        /\ call.idx <= ret.val /\ ret.val <= Len(buf)
        /\ LET scan == get_str_delimiter_offset(buf, call.idx, call.delimiter)
           IN  scan.tag = "Value" /\ scan.off = ret.val
               /\ scan.iters = call.iters

\* one iteration of the loop
C17_IterationStep ==
    (call.pc = "loop" /\ call'.pc = "loop") =>
        /\ call'.i = call.i + 1
        /\ call'.iters = call.iters + 1
        /\ call.i < Len(buf)

\* C17: the delimiter scan terminates for every source, start offset
\* o < len(src) and delimiter: its loop runs at most len(src) - o times, its
\* index grows by exactly one per iteration, and it returns r with
\* o <= r <= len(src).
C17_ScanTerminates ==
    /\ [](C17_LoopBound /\ C17_Result)
    /\ [][C17_IterationStep]_vars
    /\ (call.pc = "loop") ~> (call.pc = "done")

\* a scan from offset 0 over three bytes without the delimiter: three
\* iterations, returns 3
C17_Witness ==
    /\ call.pc = "done"
    /\ Len(buf) = 3
    /\ call.idx = 0
    /\ call.iters = 3
    /\ ret = Value(3)

\* one infallible call on the slice buf
C13_InfallibleStep ==
    (call.fn = "none" /\ call'.fn \in {"from_ctx", "into_ctx"}) =>
        LET w == SizeOf(call'.typ)
            le == call'.endian = "Little"
        IN  IF Len(buf) < w
            THEN ret' = Panic /\ buf' = buf
            ELSE /\ ret'.tag = "Value"
                 /\ Len(buf') = Len(buf)
                 /\ \A i \in (w + 1)..Len(buf) : buf'[i] = buf[i]
                 /\ call'.fn = "from_ctx" =>
                       /\ buf' = buf
                       /\ Len(ret'.val) = w
                       /\ \A i \in 0..(w - 1) :
                              ret'.val[(IF le THEN i ELSE w - 1 - i) + 1]
                                  = buf[i + 1]
                 /\ call'.fn = "into_ctx" =>
                       \A i \in 0..(w - 1) :
                           buf'[i + 1]
                               = call'.val[(IF le THEN i ELSE w - 1 - i) + 1]

\* C13: from_ctx / into_ctx of a numeric type of width w on a slice shorter
\* than w ends in the assertion failure with no byte copied and no value
\* returned; on a slice of at least w bytes the assertion does not fire and
\* only the first w bytes of the slice are read or written.
C13_InfallibleAssert == [][C13_InfallibleStep]_vars

\* an i64 read from a slice of seven bytes ended in the assertion failure
C13_Witness ==
    /\ call.fn = "from_ctx"
    /\ call.typ = "i64"
    /\ Len(buf) = 7
    /\ ret = Panic

Signed == {"i8", "i16", "i32", "i64"}

\* the one's complement of a bit pattern
Complement(v) == [i \in 1..Len(v) |-> 255 - v[i]]

\* the cast `as $typ` of the assembled unsigned data: the integer the result
\* stands for, negative where typ is signed and the top bit is set
as_typ(data, typ) ==
    IF typ \in Signed /\ data[Len(data)] >= 128
    THEN (0 - ToNat(Complement(data))) - 1
    ELSE ToNat(data)

\* the integer below 2^(8w-1) in size that is congruent modulo 2^(8w) to the
\* unsigned integer with the digits u (w = Len(u) <= 4)
TwosComplement(u) ==
    LET w == Len(u)
        top == u[w]
        low == ToNat(SubSeq(u, 1, w - 1))
    IN  IF top >= 128
        THEN (top - 256) * Pow256(w - 1) + low
        ELSE top * Pow256(w - 1) + low

\* one fallible call on a signed integer type, against the same call on the
\* unsigned type of its width
C16_SignedStep ==
    (call'.fn \in {"try_from_ctx", "try_into_ctx"} /\ call'.typ \in Signed) =>
        LET s == call'.typ
            u == signed_to_unsigned(s)
            o == call'.offset
            e == call'.endian
        IN  /\ SizeOf(u) = SizeOf(s)
            /\ u \in Unsigned
            /\ call'.fn = "try_from_ctx" =>
                  /\ ret' = try_from_ctx(buf, u, o, e).ret
                  /\ (ret'.tag = "Ok" /\ SizeOf(s) <= 4) =>
                        as_typ(ret'.val, s) = TwosComplement(ret'.val)
                  /\ (ret'.tag = "Ok" /\ ret'.val = Fill(255, SizeOf(s))) =>
                        as_typ(ret'.val, s) = 0 - 1
            /\ call'.fn = "try_into_ctx" =>
                  LET w == try_into_ctx(call'.val, u, buf, o, e)
                  IN  ret' = w.ret /\ buf' = w.dst

C14_OverflowIsBadRange ==
    call.fn \in {"try_from_ctx", "try_into_ctx", "try_ref_from_ctx_bytes",
                 "try_ref_from_ctx_str"} =>
        LET w == IF NumericCall THEN SizeOf(call.typ) ELSE call.count
        IN  call.offset + w > UsizeMax =>
                /\ ret.tag = "BadRange"
                /\ NumericCall => call.handed = <<>>

\* C15: the raw byte-slice write never copies to an address outside the
\* destination: for every offset o, those above the largest isize included,
\* it either returns BadRange or copies only into o..o+count with
\* o + count <= len(dst).
C15_CopyInsideDst ==
    call.fn = "try_into_ctx_bytes" =>
        /\ ~call.oob
        /\ \/ ret.tag = "BadRange"
           \/ /\ ret.tag = "Ok"
              /\ call.offset + Len(call.val) <= Len(buf)

====
